---- MODULE Spec2Model ----
(***************************************************************************)
(* Model of the socket.io messaging layer of techchat_backend              *)
(* (src/server.js lines 34-93) on top of the Sequelize models of           *)
(* src/config/supabase.js lines 27-131.                                    *)
(*                                                                         *)
(* One action per handler step: an async handler is cut at each await.     *)
(***************************************************************************)
EXTENDS Naturals, Sequences, FiniteSets

(* ----------------------------- bounds --------------------------------- *)

\* number of send_message events the clients send in one behaviour
MaxSends == 2

(* --------------------------- value domains ----------------------------- *)

\* JavaScript undefined / SQL NULL
Undefined == "<undefined>"

\* the socket.io sockets of the run
Sockets == {"s1", "s2"}

\* rows of the Users table (primary keys)
Users == {"alice", "bob"}

\* rows of the Channels table (primary keys): the Channel Directory
Channels == {"general", "secret"}

\* the Channels rows whose is_private is true
PrivateChannels == {"secret"}

\* rows of the ChannelMembers table: <<channel_id, user_id, role>>
InitialMembers == {<<"general", "alice", "member">>, <<"secret", "bob", "admin">>}

\* what a client may put in the channelId of a send_message event
ChannelIdInputs == {"general", "secret", "nochan", Undefined}

\* what a client may send as the argument of join_channel
RoomInputs == {"general", "secret", "nochan"}

\* what a client may put in the content of a send_message event
ContentInputs == {"hi", "", " ", Undefined}

\* handshake.auth.token values: absent, not a JWT, a JWT signed with
\* JWT_SECRET whose exp has passed, and unexpired JWTs signed with JWT_SECRET
\* for a user id (the id "ghost" has no row in Users)
Tokens == {Undefined, "garbage", "expired:alice", "jwt:alice", "jwt:ghost"}

\* jwt.verify(token, JWT_SECRET): the decoded id, or "throws"
JwtVerify(token) ==
    CASE token = "jwt:alice" -> "alice"
      [] token = "jwt:bob"   -> "bob"
      [] token = "jwt:ghost" -> "ghost"
      [] OTHER               -> "throws"

\* Users.findByPk(id, ...): the row's id, or Undefined (null)
UsersFindByPk(id) == IF id \in Users THEN id ELSE Undefined

\* jwt.verify at the time `late`: a token whose exp has passed throws
JwtVerifyAt(tok, late) == IF late THEN "throws" ELSE JwtVerify(tok)

(* ------------------------------ state ---------------------------------- *)

VARIABLES
    conn,      \* conn[s]: "idle" | "authenticating" | "connected" | "rejected" | "closed"
    token,     \* token[s]: socket.handshake.auth.token
    user,      \* user[s]: socket.user (Undefined until attached)
    rooms,     \* rooms[r]: the sockets in socket.io room r
    messages,  \* the Messages table, in insertion order; the id is the index
    sends,     \* the send_message handler invocations, in order of start
    inbox,     \* inbox[s]: the events emitted to socket s, in order
    rejoined,  \* some join_channel event found its socket in the room already
    lapsed,    \* the exp of the unexpired tokens of Tokens has passed
    sentLate,  \* some send_message event arrived after the tokens expired
    reqs,      \* the HTTP requests, in order of arrival
    channelRows, \* the Channels rows inserted by POST /api/channels, in order
    memberRows,  \* the ChannelMembers rows inserted by POST /api/channels
    status,    \* status[u]: the status column of the Users row u
    apiMessages, \* the rows of the table 'messages' inserted by api/index.js
    userRows   \* the Users rows inserted by POST /auth/signup, in order

\* the state of the HTTP routes
httpVars == <<reqs, channelRows, memberRows, status, apiMessages, userRows>>

\* the state outside the socket.io server
others == <<lapsed, sentLate, httpVars>>

vars == <<conn, token, user, rooms, messages, sends, inbox, rejoined, others>>

Init ==
    /\ conn = [s \in Sockets |-> "idle"]
    /\ token = [s \in Sockets |-> Undefined]
    /\ user = [s \in Sockets |-> Undefined]
    /\ rooms = [r \in ChannelIdInputs |-> {}]
    /\ messages = <<>>
    /\ sends = <<>>
    /\ inbox = [s \in Sockets |-> <<>>]
    /\ rejoined = FALSE
    /\ lapsed = FALSE
    /\ sentLate = FALSE
    /\ reqs = <<>>
    /\ channelRows = <<>>
    /\ memberRows = {}
    /\ status = [u \in Users |-> IF u = "alice" THEN "offline" ELSE "online"]
    /\ apiMessages = <<>>
    /\ userRows = <<>>

(* ------------------- connection authentication (io.use) ---------------- *)

\* time passes: the exp claim (expiresIn: '30d') of the tokens signed for
\* the clients is now in the past
Tick ==
    /\ ~lapsed
    /\ lapsed' = TRUE
    /\ UNCHANGED <<conn, token, user, rooms, messages, sends, inbox, rejoined, sentLate, httpVars>>

\* io.use, up to the await: no token, or jwt.verify throws -> next(Error);
\* otherwise Users.findByPk(decoded.id) is awaited
IoUse(s, t) ==
    /\ conn[s] = "idle"
    /\ token' = [token EXCEPT ![s] = t]
    /\ conn' = [conn EXCEPT ![s] =
                  IF t = Undefined \/ JwtVerifyAt(t, lapsed) = "throws"
                  THEN "rejected" ELSE "authenticating"]
    /\ UNCHANGED <<user, rooms, messages, sends, inbox, rejoined, others>>

\* as IoUseResolved, without the `if (!user)` test
IoUseResolvedUnchecked(s) ==
    /\ conn[s] = "authenticating"
    /\ user' = [user EXCEPT ![s] = UsersFindByPk(JwtVerify(token[s]))]
    /\ conn' = [conn EXCEPT ![s] = "connected"]
    /\ UNCHANGED <<token, rooms, messages, sends, inbox, rejoined, others>>

\* io.use, after the await: no row -> next(Error('User not found'));
\* otherwise socket.user = user; next(), and io.on('connection') registers
\* the socket's handlers
IoUseResolved(s) ==
    /\ conn[s] = "authenticating"
    /\ LET found == UsersFindByPk(JwtVerify(token[s])) IN
        /\ user' = [user EXCEPT ![s] = found]
        /\ conn' = [conn EXCEPT ![s] =
                      IF found = Undefined THEN "rejected" ELSE "connected"]
    /\ UNCHANGED <<token, rooms, messages, sends, inbox, rejoined, others>>

\* io.use: Users.findByPk rejects (the database is unreachable); the catch
\* calls next(Error('Authentication error'))
IoUseFailed(s) ==
    /\ conn[s] = "authenticating"
    /\ conn' = [conn EXCEPT ![s] = "rejected"]
    /\ UNCHANGED <<token, user, rooms, messages, sends, inbox, rejoined, others>>

(* ----------------------------- rooms ----------------------------------- *)

\* as SocketJoin, leaving the room when the socket is already in it
SocketToggle(rms, s, r) ==
    [rms EXCEPT ![r] = IF s \in @ THEN @ \ {s} ELSE @ \cup {s}]

\* socket.join(room): the adapter's room is a Set of sockets
SocketJoin(rms, s, r) == [rms EXCEPT ![r] = @ \cup {s}]

\* as JoinChannel, refusing a private channel to a user who has no
\* ChannelMembers row for it
JoinChannelMembersOnly(s, channelId) ==
    /\ conn[s] = "connected"
    /\ channelId \in PrivateChannels =>
          \E m \in InitialMembers : m[1] = channelId /\ m[2] = user[s]
    /\ rooms' = SocketJoin(rooms, s, channelId)
    /\ rejoined' = (rejoined \/ s \in rooms[channelId])
    /\ UNCHANGED <<conn, token, user, messages, sends, inbox, others>>

\* socket.on('join_channel'): registered by io.on('connection') only
JoinChannel(s, channelId) ==
    /\ conn[s] = "connected"
    /\ rooms' = SocketJoin(rooms, s, channelId)
    /\ rejoined' = (rejoined \/ s \in rooms[channelId])
    /\ UNCHANGED <<conn, token, user, messages, sends, inbox, others>>

\* as LeaveAll, with the rooms left as they are
LeaveNone(rms, s) == rms

\* the socket leaves every room when its transport closes
LeaveAll(rms, s) == [r \in DOMAIN rms |-> rms[r] \ {s}]

\* socket.on('disconnect'): socket.io has removed the socket from every
\* room before the handler runs; the handler itself only logs
Disconnect(s) ==
    /\ conn[s] = "connected"
    /\ conn' = [conn EXCEPT ![s] = "closed"]
    /\ rooms' = LeaveAll(rooms, s)
    /\ UNCHANGED <<token, user, messages, sends, inbox, rejoined, others>>

(* ------------------------ send_message handler ------------------------- *)

\* Messages.findByPk(id, {include: sender}): the row, or Undefined (null)
MessagesFindByPk(id) ==
    IF id \in 1..Len(messages) THEN messages[id] ELSE Undefined

\* what the database accepts of an INSERT into Messages: content is
\* allowNull: false; channel_id and user_id are the nullable foreign keys
\* the associations add
InsertAccepted(content, channel_id, user_id) ==
    /\ content # Undefined
    /\ channel_id = Undefined \/ channel_id \in Channels
    /\ user_id = Undefined \/ user_id \in Users

\* as IoToEmit, by io.emit(ev): one packet to every connected socket
IoEmit(box, room, ev) ==
    [s \in Sockets |-> IF conn[s] = "connected" THEN Append(box[s], ev) ELSE box[s]]

\* as IoToEmit, with the packet put ahead of what socket "s2" is still to
\* be sent
IoToEmitOvertaking(box, room, ev) ==
    [s \in Sockets |-> IF s \notin room THEN box[s]
                       ELSE IF s = "s2" THEN <<ev>> \o box[s] ELSE Append(box[s], ev)]

\* io.to(room).emit(ev): one packet to every socket in the room
IoToEmit(box, room, ev) ==
    [s \in Sockets |-> IF s \in room THEN Append(box[s], ev) ELSE box[s]]

\* socket.emit(ev): a packet to this socket, dropped when it is closed
SocketEmit(box, s, ev) ==
    IF conn[s] = "connected" THEN [box EXCEPT ![s] = Append(@, ev)] ELSE box

\* the 'error' event of the catch block; send is the handler invocation
ErrorEvent(h) == [type |-> "error", send |-> h, payload |-> Undefined]

\* the 'receive_message' event carrying messageWithSender
ReceiveEvent(h, row) == [type |-> "receive_message", send |-> h, payload |-> row]

\* the sender-related field a client may add to the send_message payload
SenderInputs == {Undefined, "alice", "bob"}

\* the payload of a send_message event
Data(channelId, content, user_id) ==
    [channelId |-> channelId, content |-> content, user_id |-> user_id]

\* as SenderId, preferring the sender field of the payload
SenderIdFromPayload(s, data) ==
    IF data.user_id # Undefined THEN data.user_id ELSE user[s]

\* the user_id given to Messages.create: socket.user.id
SenderId(s, data) == user[s]

\* as SendMessage, verifying the handshake token again on every event
SendMessageReverified(s, data) ==
    /\ conn[s] = "connected"
    /\ JwtVerifyAt(token[s], lapsed) # "throws"
    /\ Len(sends) < MaxSends
    /\ sends' = Append(sends, [pc |-> "create", socket |-> s,
                               channelId |-> data.channelId,
                               content |-> data.content,
                               user_id |-> SenderId(s, data), id |-> 0,
                               begunAt |-> Len(messages), fanout |-> {}])
    /\ sentLate' = (sentLate \/ lapsed)
    /\ UNCHANGED <<conn, token, user, rooms, messages, inbox, rejoined, lapsed, httpVars>>

\* as SendMessage, refusing a sender that is not in the channel's room
SendMessageMembersOnly(s, data) ==
    /\ conn[s] = "connected"
    /\ s \in rooms[data.channelId]
    /\ Len(sends) < MaxSends
    /\ sends' = Append(sends, [pc |-> "create", socket |-> s, channelId |-> data.channelId,
                               content |-> data.content, user_id |-> SenderId(s, data), id |-> 0,
                               begunAt |-> Len(messages), fanout |-> {}])
    /\ sentLate' = (sentLate \/ lapsed)
    /\ UNCHANGED <<conn, token, user, rooms, messages, inbox, rejoined, lapsed, httpVars>>

\* socket.on('send_message'), up to the first await: destructure channelId
\* and content from data and call Messages.create with socket.user.id
SendMessage(s, data) ==
    /\ conn[s] = "connected"
    /\ Len(sends) < MaxSends
    /\ sends' = Append(sends, [pc |-> "create", socket |-> s,
                               channelId |-> data.channelId,
                               content |-> data.content,
                               user_id |-> SenderId(s, data), id |-> 0,
                               begunAt |-> Len(messages), fanout |-> {}])
    /\ sentLate' = (sentLate \/ lapsed)
    /\ UNCHANGED <<conn, token, user, rooms, messages, inbox, rejoined, lapsed, httpVars>>

\* Messages.create resolves: the row is inserted with the next id
CreateOk(h) ==
    /\ h \in 1..Len(sends)
    /\ sends[h].pc = "create"
    /\ InsertAccepted(sends[h].content, sends[h].channelId, sends[h].user_id)
    /\ messages' = Append(messages, [id |-> Len(messages) + 1,
                                     content |-> sends[h].content,
                                     channel_id |-> sends[h].channelId,
                                     user_id |-> sends[h].user_id])
    /\ sends' = [sends EXCEPT ![h].pc = "fetch", ![h].id = Len(messages) + 1]
    /\ UNCHANGED <<conn, token, user, rooms, inbox, rejoined, others>>

\* as CreateFail, with the broadcast outside the try block: the event is
\* emitted although nothing was stored
CreateFailStillBroadcasts(h) ==
    /\ h \in 1..Len(sends)
    /\ sends[h].pc = "create"
    /\ inbox' = IoToEmit(SocketEmit(inbox, sends[h].socket, ErrorEvent(h)),
                         rooms[sends[h].channelId],
                         ReceiveEvent(h, [id |-> Len(messages) + 1,
                                          content |-> sends[h].content,
                                          channel_id |-> sends[h].channelId,
                                          user_id |-> sends[h].user_id]))
    /\ sends' = [sends EXCEPT ![h].pc = "createFailed"]
    /\ UNCHANGED <<conn, token, user, rooms, messages, rejoined, others>>

\* as CreateFail, with the error sent by io.to(channelId).emit
CreateFailErrorToRoom(h) ==
    /\ h \in 1..Len(sends)
    /\ sends[h].pc = "create"
    /\ inbox' = IoToEmit(inbox, rooms[sends[h].channelId], ErrorEvent(h))
    /\ sends' = [sends EXCEPT ![h].pc = "createFailed"]
    /\ UNCHANGED <<conn, token, user, rooms, messages, rejoined, others>>

\* Messages.create rejects (a constraint is violated, or the database is
\* unreachable): catch -> socket.emit('error', ...)
CreateFail(h) ==
    /\ h \in 1..Len(sends)
    /\ sends[h].pc = "create"
    /\ inbox' = SocketEmit(inbox, sends[h].socket, ErrorEvent(h))
    /\ sends' = [sends EXCEPT ![h].pc = "createFailed"]
    /\ UNCHANGED <<conn, token, user, rooms, messages, rejoined, others>>

\* Messages.findByPk resolves: io.to(channelId).emit('receive_message', ...)
FetchOk(h) ==
    /\ h \in 1..Len(sends)
    /\ sends[h].pc = "fetch"
    /\ inbox' = IoToEmit(inbox, rooms[sends[h].channelId],
                         ReceiveEvent(h, MessagesFindByPk(sends[h].id)))
    /\ sends' = [sends EXCEPT ![h].pc = "done",
                              ![h].fanout = rooms[sends[h].channelId]]
    /\ UNCHANGED <<conn, token, user, rooms, messages, rejoined, others>>

\* Messages.findByPk rejects (the database is unreachable): catch ->
\* socket.emit('error', ...)
FetchFail(h) ==
    /\ h \in 1..Len(sends)
    /\ sends[h].pc = "fetch"
    /\ inbox' = SocketEmit(inbox, sends[h].socket, ErrorEvent(h))
    /\ sends' = [sends EXCEPT ![h].pc = "fetchFailed"]
    /\ UNCHANGED <<conn, token, user, rooms, messages, rejoined, others>>

(* ------------------------------ HTTP routes ---------------------------- *)

\* the largest number of HTTP requests of one behaviour
MaxRequests == 2

\* the socket.io server's state, which no HTTP route writes
socketVars == <<conn, token, user, rooms, messages, sends, inbox, rejoined>>

\* Authorization headers as <<scheme, token>>: absent (<<>>), another scheme, 'Bearer' without a token,
\* and 'Bearer <token>' for the tokens of Tokens
AuthHeaders ==
    {<<>>, <<"Basic", "jwt:alice">>, <<"Bearer", Undefined>>}
        \cup {<<"Bearer", t>> : t \in Tokens \ {Undefined}}

\* the channel names a client may post; "general" is the name of a row
NameInputs == {"general", "dev"}

\* req.headers.authorization && req.headers.authorization.startsWith('Bearer')
HasBearer(hdr) == Len(hdr) > 0 /\ hdr[1] = "Bearer"

\* req.headers.authorization.split(' ')[1]
BearerToken(hdr) == hdr[2]

\* protect, up to the await: the header has a Bearer token that jwt.verify
\* accepts (otherwise 401 is answered at once)
ProtectPasses(hdr) ==
    /\ HasBearer(hdr)
    /\ BearerToken(hdr) # Undefined
    /\ JwtVerifyAt(BearerToken(hdr), lapsed) # "throws"

\* a request to POST /api/channels arrives: apiRouter.use(protect) runs
ApiChannelsPost(hdr, name) ==
    /\ Len(reqs) < MaxRequests
    /\ reqs' = Append(reqs, [route |-> "POST /api/channels", auth |-> hdr,
                             name |-> name, user |-> Undefined, row |-> 0,
                             pc |-> IF ProtectPasses(hdr) THEN "protect" ELSE "done",
                             code |-> IF ProtectPasses(hdr) THEN 0 ELSE 401])
    /\ UNCHANGED <<socketVars, lapsed, sentLate, channelRows, memberRows, status, apiMessages, userRows>>

\* as ProtectResolved, without the `if (!req.user)` test
ProtectResolvedUnchecked(q) ==
    /\ q \in 1..Len(reqs)
    /\ reqs[q].pc = "protect"
    /\ reqs' = [reqs EXCEPT
                  ![q].user = UsersFindByPk(JwtVerify(BearerToken(reqs[q].auth))),
                  ![q].pc = "create"]
    /\ UNCHANGED <<socketVars, lapsed, sentLate, channelRows, memberRows, status, apiMessages, userRows>>

\* protect, after the await: no Users row -> 401; otherwise next() and the
\* route handler calls Channels.create
ProtectResolved(q) ==
    /\ q \in 1..Len(reqs)
    /\ reqs[q].pc = "protect"
    /\ LET found == UsersFindByPk(JwtVerify(BearerToken(reqs[q].auth))) IN
        reqs' = [reqs EXCEPT ![q].user = found,
                             ![q].pc = IF found = Undefined THEN "done" ELSE "create",
                             ![q].code = IF found = Undefined THEN 401 ELSE 0]
    /\ UNCHANGED <<socketVars, lapsed, sentLate, channelRows, memberRows, status, apiMessages, userRows>>

\* protect: Users.findByPk rejects; the catch answers 401
ProtectFailed(q) ==
    /\ q \in 1..Len(reqs)
    /\ reqs[q].pc = "protect"
    /\ reqs' = [reqs EXCEPT ![q].pc = "done", ![q].code = 401]
    /\ UNCHANGED <<socketVars, lapsed, sentLate, channelRows, memberRows, status, apiMessages, userRows>>

\* the names of the Channels rows (a row of Channels is named by its id)
ChannelNames == Channels \cup {channelRows[i].name : i \in 1..Len(channelRows)}

\* as NameFree, without the unique index
NameAlwaysFree(name) == TRUE

\* Channels.name is unique: true; the INSERT succeeds for a new name only
NameFree(name) == name \notin ChannelNames

\* POST /api/channels: Channels.create resolves; newChannel.addUser is called
ChannelCreateOk(q) ==
    /\ q \in 1..Len(reqs)
    /\ reqs[q].pc = "create"
    /\ NameFree(reqs[q].name)
    /\ channelRows' = Append(channelRows, [id |-> Len(channelRows) + 1,
                                           name |-> reqs[q].name,
                                           created_by |-> reqs[q].user,
                                           req |-> q])
    /\ reqs' = [reqs EXCEPT ![q].pc = "addUser", ![q].row = Len(channelRows) + 1]
    /\ UNCHANGED <<socketVars, lapsed, sentLate, memberRows, status, apiMessages, userRows>>

\* POST /api/channels: Channels.create rejects with
\* SequelizeUniqueConstraintError; the catch answers 400
ChannelCreateConflict(q) ==
    /\ q \in 1..Len(reqs)
    /\ reqs[q].pc = "create"
    /\ ~NameFree(reqs[q].name)
    /\ reqs' = [reqs EXCEPT ![q].pc = "done", ![q].code = 400]
    /\ UNCHANGED <<socketVars, lapsed, sentLate, channelRows, memberRows, status, apiMessages, userRows>>

\* POST /api/channels: Channels.create rejects with another error (the
\* database is unreachable); the catch answers 500
ChannelCreateFail(q) ==
    /\ q \in 1..Len(reqs)
    /\ reqs[q].pc = "create"
    /\ reqs' = [reqs EXCEPT ![q].pc = "done", ![q].code = 500]
    /\ UNCHANGED <<socketVars, lapsed, sentLate, channelRows, memberRows, status, apiMessages, userRows>>

\* POST /api/channels: newChannel.addUser resolves; 201 is answered
AddUserOk(q) ==
    /\ q \in 1..Len(reqs)
    /\ reqs[q].pc = "addUser"
    /\ memberRows' = memberRows \cup {<<reqs[q].row, reqs[q].user, "admin">>}
    /\ reqs' = [reqs EXCEPT ![q].pc = "done", ![q].code = 201]
    /\ UNCHANGED <<socketVars, lapsed, sentLate, channelRows, status, apiMessages, userRows>>

\* POST /api/channels: newChannel.addUser rejects; the catch answers 500
AddUserFail(q) ==
    /\ q \in 1..Len(reqs)
    /\ reqs[q].pc = "addUser"
    /\ reqs' = [reqs EXCEPT ![q].pc = "done", ![q].code = 500]
    /\ UNCHANGED <<socketVars, lapsed, sentLate, channelRows, memberRows, status, apiMessages, userRows>>

\* the emails and passwords a client may post to /auth/login; a user's email
\* is modelled by the user's id, and "right" is every user's password
EmailInputs == {"alice", "bob", "nobody"}
PasswordInputs == {"right", "wrong"}

\* Users.findOne({ where: { email } }): the row's id, or Undefined (null)
UsersFindOne(email) == IF email \in Users THEN email ELSE Undefined

\* bcrypt.compare(password, user.password)
BcryptCompare(password) == password = "right"

\* a request to POST /auth/login arrives: Users.findOne is called
AuthLoginPost(email, password) ==
    /\ Len(reqs) < MaxRequests
    /\ reqs' = Append(reqs, [route |-> "POST /auth/login", email |-> email,
                             password |-> password, user |-> Undefined,
                             pc |-> "findOne", code |-> 0])
    /\ UNCHANGED <<socketVars, lapsed, sentLate, channelRows, memberRows, status, apiMessages, userRows>>

\* login: Users.findOne resolves; no row -> 401, else bcrypt.compare
LoginFound(q) ==
    /\ q \in 1..Len(reqs)
    /\ reqs[q].pc = "findOne"
    /\ LET found == UsersFindOne(reqs[q].email) IN
        reqs' = [reqs EXCEPT ![q].user = found,
                             ![q].pc = IF found = Undefined THEN "done" ELSE "compare",
                             ![q].code = IF found = Undefined THEN 401 ELSE 0]
    /\ UNCHANGED <<socketVars, lapsed, sentLate, channelRows, memberRows, status, apiMessages, userRows>>

\* login: bcrypt.compare resolves; false -> 401, else user.update is called
LoginCompared(q) ==
    /\ q \in 1..Len(reqs)
    /\ reqs[q].pc = "compare"
    /\ reqs' = [reqs EXCEPT
                  ![q].pc = IF BcryptCompare(reqs[q].password) THEN "update" ELSE "done",
                  ![q].code = IF BcryptCompare(reqs[q].password) THEN 0 ELSE 401]
    /\ UNCHANGED <<socketVars, lapsed, sentLate, channelRows, memberRows, status, apiMessages, userRows>>

\* as LoginUpdated, without user.update({ status: 'online' })
LoginNotUpdated(q) ==
    /\ q \in 1..Len(reqs)
    /\ reqs[q].pc = "update"
    /\ reqs' = [reqs EXCEPT ![q].pc = "done", ![q].code = 200]
    /\ UNCHANGED <<socketVars, lapsed, sentLate, channelRows, memberRows, status, apiMessages, userRows>>

\* login: user.update({ status: 'online' }) resolves; the token is signed
\* and 200 is answered
LoginUpdated(q) ==
    /\ q \in 1..Len(reqs)
    /\ reqs[q].pc = "update"
    /\ status' = [status EXCEPT ![reqs[q].user] = "online"]
    /\ reqs' = [reqs EXCEPT ![q].pc = "done", ![q].code = 200]
    /\ UNCHANGED <<socketVars, lapsed, sentLate, channelRows, memberRows, apiMessages, userRows>>

\* login: one of the awaited calls rejects; the catch answers 500
LoginFail(q) ==
    /\ q \in 1..Len(reqs)
    /\ reqs[q].pc \in {"findOne", "compare", "update"}
    /\ reqs' = [reqs EXCEPT ![q].pc = "done", ![q].code = 500]
    /\ UNCHANGED <<socketVars, lapsed, sentLate, channelRows, memberRows, status, apiMessages, userRows>>

(* ------------------- POST /api/messages/:channelId --------------------- *)

\* a request to POST /api/messages/:channelId of server.js arrives:
\* apiRouter.use(protect) runs
ApiMessagesPost(hdr, channelId, content) ==
    /\ Len(reqs) < MaxRequests
    /\ reqs' = Append(reqs, [route |-> "POST /api/messages/:channelId", auth |-> hdr,
                             channelId |-> channelId, content |-> content,
                             user |-> Undefined, row |-> 0,
                             pc |-> IF ProtectPasses(hdr) THEN "protect" ELSE "done",
                             code |-> IF ProtectPasses(hdr) THEN 0 ELSE 401])
    /\ UNCHANGED <<socketVars, lapsed, sentLate, channelRows, memberRows, status,
                   apiMessages, userRows>>

\* POST /api/messages/:channelId: Messages.create resolves, the row is
\* inserted with user_id: req.user.id
ApiMessageCreateOk(q) ==
    /\ q \in 1..Len(reqs)
    /\ reqs[q].pc = "create"
    /\ InsertAccepted(reqs[q].content, reqs[q].channelId, reqs[q].user)
    /\ messages' = Append(messages, [id |-> Len(messages) + 1,
                                     content |-> reqs[q].content,
                                     channel_id |-> reqs[q].channelId,
                                     user_id |-> reqs[q].user])
    /\ reqs' = [reqs EXCEPT ![q].pc = "fetch", ![q].row = Len(messages) + 1]
    /\ UNCHANGED <<conn, token, user, rooms, sends, inbox, rejoined, lapsed, sentLate,
                   channelRows, memberRows, status, apiMessages, userRows>>

\* POST /api/messages/:channelId: Messages.create rejects; the catch
\* answers 500
ApiMessageCreateFail(q) ==
    /\ q \in 1..Len(reqs)
    /\ reqs[q].pc = "create"
    /\ reqs' = [reqs EXCEPT ![q].pc = "done", ![q].code = 500]
    /\ UNCHANGED <<socketVars, lapsed, sentLate, channelRows, memberRows, status,
                   apiMessages, userRows>>

\* as ApiMessageFetchOk, with the io.to(channelId).emit of the socket
\* handler before the response
ApiMessageFetchOkEmitting(q) ==
    /\ q \in 1..Len(reqs)
    /\ reqs[q].pc = "fetch"
    /\ inbox' = IoToEmit(inbox, rooms[reqs[q].channelId],
                         ReceiveEvent(0, MessagesFindByPk(reqs[q].row)))
    /\ reqs' = [reqs EXCEPT ![q].pc = "done", ![q].code = 201]
    /\ UNCHANGED <<conn, token, user, rooms, messages, sends, rejoined, lapsed, sentLate,
                   channelRows, memberRows, status, apiMessages, userRows>>

\* POST /api/messages/:channelId: Messages.findByPk resolves and
\* messageWithSender is answered with 201
ApiMessageFetchOk(q) ==
    /\ q \in 1..Len(reqs)
    /\ reqs[q].pc = "fetch"
    /\ reqs' = [reqs EXCEPT ![q].pc = "done", ![q].code = 201]
    /\ UNCHANGED <<socketVars, lapsed, sentLate, channelRows, memberRows, status,
                   apiMessages, userRows>>

\* POST /api/messages/:channelId: Messages.findByPk rejects; the catch
\* answers 500
ApiMessageFetchFail(q) ==
    /\ q \in 1..Len(reqs)
    /\ reqs[q].pc = "fetch"
    /\ reqs' = [reqs EXCEPT ![q].pc = "done", ![q].code = 500]
    /\ UNCHANGED <<socketVars, lapsed, sentLate, channelRows, memberRows, status,
                   apiMessages, userRows>>

\* JavaScript's !x for the values of a request body
Falsy(x) == x = Undefined \/ x = ""

\* a request to POST /api/messages/:channelId of api/index.js arrives (no
\* middleware runs): 400 when content or user_id is missing, otherwise
\* supabase.from('messages').insert is called
ApiIndexMessagesPost(channelId, content, user_id) ==
    /\ Len(reqs) < MaxRequests
    /\ reqs' = Append(reqs, [route |-> "api/index.js POST /api/messages/:channelId",
                             auth |-> <<>>,
                             channelId |-> channelId, content |-> content,
                             user_id |-> user_id, user |-> Undefined, row |-> 0,
                             pc |-> IF Falsy(content) \/ Falsy(user_id)
                                    THEN "done" ELSE "insert",
                             code |-> IF Falsy(content) \/ Falsy(user_id)
                                      THEN 400 ELSE 0])
    /\ UNCHANGED <<socketVars, lapsed, sentLate, channelRows, memberRows, status,
                   apiMessages, userRows>>

\* api/index.js: the insert returns no error; data[0] is answered with 201
ApiIndexInsertOk(q) ==
    /\ q \in 1..Len(reqs)
    /\ reqs[q].pc = "insert"
    /\ apiMessages' = Append(apiMessages, [id |-> Len(apiMessages) + 1,
                                           content |-> reqs[q].content,
                                           channel_id |-> reqs[q].channelId,
                                           user_id |-> reqs[q].user_id])
    /\ reqs' = [reqs EXCEPT ![q].pc = "done", ![q].code = 201,
                            ![q].row = Len(apiMessages) + 1]
    /\ UNCHANGED <<socketVars, lapsed, sentLate, channelRows, memberRows, status,
                   userRows>>

\* api/index.js: the insert returns an error or the call throws; the catch
\* answers 500
ApiIndexInsertFail(q) ==
    /\ q \in 1..Len(reqs)
    /\ reqs[q].pc = "insert"
    /\ reqs' = [reqs EXCEPT ![q].pc = "done", ![q].code = 500]
    /\ UNCHANGED <<socketVars, lapsed, sentLate, channelRows, memberRows, status,
                   apiMessages, userRows>>

(* --------------------------- POST /auth/signup ------------------------ *)

\* the usernames and emails a client may post to /auth/signup; the users of
\* Users have their id as username and as email, so "alice" is taken
UsernameInputs == {"alice", "carol"}
SignupEmailInputs == {"alice", "carol"}

\* the usernames and emails of the Users rows
Usernames == Users \cup {userRows[i].username : i \in 1..Len(userRows)}
Emails == Users \cup {userRows[i].email : i \in 1..Len(userRows)}

\* Users.findOne({ where: { [Op.or]: [{ email }, { username }] } }) finds a row
UserExists(username, email) == email \in Emails \/ username \in Usernames

\* a request to POST /auth/signup arrives: Users.findOne is called
AuthSignupPost(username, email) ==
    /\ Len(reqs) < MaxRequests
    /\ reqs' = Append(reqs, [route |-> "POST /auth/signup", username |-> username,
                             email |-> email, row |-> 0, token |-> Undefined,
                             error |-> Undefined, pc |-> "findOne", code |-> 0])
    /\ UNCHANGED <<socketVars, lapsed, sentLate, channelRows, memberRows, status,
                   apiMessages, userRows>>

\* signup: Users.findOne resolves; a row -> 409, else bcrypt.hash is called
SignupFound(q) ==
    /\ q \in 1..Len(reqs)
    /\ reqs[q].pc = "findOne"
    /\ LET userExists == UserExists(reqs[q].username, reqs[q].email) IN
        reqs' = [reqs EXCEPT ![q].pc = IF userExists THEN "done" ELSE "hash",
                             ![q].code = IF userExists THEN 409 ELSE 0]
    /\ UNCHANGED <<socketVars, lapsed, sentLate, channelRows, memberRows, status,
                   apiMessages, userRows>>

\* signup: bcrypt.hash resolves; Users.create is called
SignupHashed(q) ==
    /\ q \in 1..Len(reqs)
    /\ reqs[q].pc = "hash"
    /\ reqs' = [reqs EXCEPT ![q].pc = "create"]
    /\ UNCHANGED <<socketVars, lapsed, sentLate, channelRows, memberRows, status,
                   apiMessages, userRows>>

\* signup: Users.create resolves (username and email are unique: true, so
\* both are new); the token is signed and 201 is answered
SignupCreateOk(q) ==
    /\ q \in 1..Len(reqs)
    /\ reqs[q].pc = "create"
    /\ ~UserExists(reqs[q].username, reqs[q].email)
    /\ userRows' = Append(userRows, [id |-> Len(userRows) + 1,
                                     username |-> reqs[q].username,
                                     email |-> reqs[q].email,
                                     status |-> "online", req |-> q])
    /\ reqs' = [reqs EXCEPT ![q].pc = "done", ![q].code = 201,
                            ![q].row = Len(userRows) + 1,
                            ![q].token = "jwt"]
    /\ UNCHANGED <<socketVars, lapsed, sentLate, channelRows, memberRows, status,
                   apiMessages>>

\* signup: Users.create rejects with SequelizeUniqueConstraintError (a row
\* with the username or the email was inserted since the findOne); the
\* catch answers 500
SignupCreateConflict(q) ==
    /\ q \in 1..Len(reqs)
    /\ reqs[q].pc = "create"
    /\ UserExists(reqs[q].username, reqs[q].email)
    /\ reqs' = [reqs EXCEPT ![q].pc = "done", ![q].code = 500,
                            ![q].error = "SequelizeUniqueConstraintError"]
    /\ UNCHANGED <<socketVars, lapsed, sentLate, channelRows, memberRows, status,
                   apiMessages, userRows>>

\* signup: one of the awaited calls rejects for another reason (the
\* database is unreachable); the catch answers 500
SignupFail(q) ==
    /\ q \in 1..Len(reqs)
    /\ reqs[q].pc \in {"findOne", "hash", "create"}
    /\ reqs' = [reqs EXCEPT ![q].pc = "done", ![q].code = 500,
                            ![q].error = "SequelizeConnectionError"]
    /\ UNCHANGED <<socketVars, lapsed, sentLate, channelRows, memberRows, status,
                   apiMessages, userRows>>

(* --------------------------- specification ----------------------------- *)

\* one step of the server, the clients' inputs drawn from the given sets:
\* T handshake tokens, R join_channel arguments, C and X the channelId and
\* content of send_message
NextOn(T, R, C, X) ==
    \/ \E s \in Sockets, t \in T : IoUse(s, t)
    \/ \E s \in Sockets : IoUseResolved(s)
    \/ \E s \in Sockets : IoUseFailed(s)
    \/ \E s \in Sockets, r \in R : JoinChannel(s, r)
    \/ \E s \in Sockets, c \in C, x \in X, u \in SenderInputs :
          SendMessage(s, Data(c, x, u))
    \/ \E h \in 1..MaxSends : CreateOk(h)
    \/ \E h \in 1..MaxSends : CreateFail(h)
    \/ \E h \in 1..MaxSends : FetchOk(h)
    \/ \E h \in 1..MaxSends : FetchFail(h)
    \/ \E s \in Sockets : Disconnect(s)

\* authenticated clients exchanging well-formed messages on one channel
Next == NextOn({"jwt:alice"}, {"general"}, {"general"}, {"hi"})

Spec == Init /\ [][Next]_vars

\* as Next, while the clients' tokens expire
NextExpiry == Next \/ Tick

SpecExpiry == Init /\ [][NextExpiry]_vars

\* every kind of handshake credential
NextAuth == NextOn(Tokens, {"general"}, {"general"}, {"hi"})

SpecAuth == Init /\ [][NextAuth]_vars

\* every kind of channel id, in join_channel and in send_message
NextChannel == NextOn({"jwt:alice"}, {"general", "nochan"},
                      {"general", "nochan", Undefined}, {"hi"})

SpecChannel == Init /\ [][NextChannel]_vars

\* alice's clients on the private channel she is no member of
NextPrivate == NextOn({"jwt:alice"}, {"secret"}, {"secret"}, {"hi"})

SpecPrivate == Init /\ [][NextPrivate]_vars

\* the protected route POST /api/channels, under every kind of header
NextHttp ==
    \/ \E hdr \in AuthHeaders, name \in NameInputs : ApiChannelsPost(hdr, name)
    \/ \E q \in 1..MaxRequests : ProtectResolved(q)
    \/ \E q \in 1..MaxRequests : ProtectFailed(q)
    \/ \E q \in 1..MaxRequests : ChannelCreateOk(q)
    \/ \E q \in 1..MaxRequests : ChannelCreateConflict(q)
    \/ \E q \in 1..MaxRequests : ChannelCreateFail(q)
    \/ \E q \in 1..MaxRequests : AddUserOk(q)
    \/ \E q \in 1..MaxRequests : AddUserFail(q)

SpecHttp == Init /\ [][NextHttp]_vars

\* logins next to the life of alice's connections (no sends)
NextPresence ==
    \/ \E s \in Sockets : IoUse(s, "jwt:alice")
    \/ \E s \in Sockets : IoUseResolved(s)
    \/ \E s \in Sockets : IoUseFailed(s)
    \/ \E s \in Sockets : JoinChannel(s, "general")
    \/ \E s \in Sockets : Disconnect(s)
    \/ \E email \in EmailInputs, password \in PasswordInputs :
          AuthLoginPost(email, password)
    \/ \E q \in 1..MaxRequests : LoginFound(q)
    \/ \E q \in 1..MaxRequests : LoginCompared(q)
    \/ \E q \in 1..MaxRequests : LoginUpdated(q)
    \/ \E q \in 1..MaxRequests : LoginFail(q)

SpecPresence == Init /\ [][NextPresence]_vars

\* the two routes POST /api/messages/:channelId: the protected one of
\* server.js and the one of api/index.js
NextMessages ==
    \/ \E hdr \in {<<>>, <<"Bearer", "jwt:alice">>, <<"Bearer", "jwt:ghost">>} :
          ApiMessagesPost(hdr, "general", "hi")
    \/ \E q \in 1..MaxRequests : ProtectResolved(q)
    \/ \E q \in 1..MaxRequests : ProtectFailed(q)
    \/ \E q \in 1..MaxRequests : ApiMessageCreateOk(q)
    \/ \E q \in 1..MaxRequests : ApiMessageCreateFail(q)
    \/ \E q \in 1..MaxRequests : ApiMessageFetchOk(q)
    \/ \E q \in 1..MaxRequests : ApiMessageFetchFail(q)
    \/ \E content \in {"hi", ""}, user_id \in SenderInputs :
          ApiIndexMessagesPost("general", content, user_id)
    \/ \E q \in 1..MaxRequests : ApiIndexInsertOk(q)
    \/ \E q \in 1..MaxRequests : ApiIndexInsertFail(q)

SpecMessages == Init /\ [][NextMessages]_vars

\* alice's connections joining the channel and closing while she posts
\* messages to the channel over HTTP (no send_message)
NextFrame ==
    \/ \E s \in Sockets : IoUse(s, "jwt:alice")
    \/ \E s \in Sockets : IoUseResolved(s)
    \/ \E s \in Sockets : IoUseFailed(s)
    \/ \E s \in Sockets : JoinChannel(s, "general")
    \/ \E s \in Sockets : Disconnect(s)
    \/ ApiMessagesPost(<<"Bearer", "jwt:alice">>, "general", "hi")
    \/ \E q \in 1..MaxRequests : ProtectResolved(q)
    \/ \E q \in 1..MaxRequests : ProtectFailed(q)
    \/ \E q \in 1..MaxRequests : ApiMessageCreateOk(q)
    \/ \E q \in 1..MaxRequests : ApiMessageCreateFail(q)
    \/ \E q \in 1..MaxRequests : ApiMessageFetchOk(q)
    \/ \E q \in 1..MaxRequests : ApiMessageFetchFail(q)

SpecFrame == Init /\ [][NextFrame]_vars

\* concurrent requests to POST /auth/signup
NextSignup ==
    \/ \E username \in UsernameInputs, email \in SignupEmailInputs :
          AuthSignupPost(username, email)
    \/ \E q \in 1..MaxRequests : SignupFound(q)
    \/ \E q \in 1..MaxRequests : SignupHashed(q)
    \/ \E q \in 1..MaxRequests : SignupCreateOk(q)
    \/ \E q \in 1..MaxRequests : SignupCreateConflict(q)
    \/ \E q \in 1..MaxRequests : SignupFail(q)

SpecSignup == Init /\ [][NextSignup]_vars

\* every kind of message content
NextContent == NextOn({"jwt:alice"}, {"general"}, {"general"}, ContentInputs)

SpecContent == Init /\ [][NextContent]_vars

(* ------------------------------ claims -------------------------------- *)

\* the rows of the Messages table
StoredRows == {messages[i] : i \in 1..Len(messages)}

\* the events of a kind that socket s has been sent by invocation h
EventsOf(s, h, type) ==
    {i \in 1..Len(inbox[s]) : inbox[s][i].type = type /\ inbox[s][i].send = h}

\* the invocations whose Messages.create has resolved
Persisted == {h \in 1..Len(sends) : sends[h].pc \in {"fetch", "done", "fetchFailed"}}

\* C1: every receive_message event carries a row that was in the Messages
\* table before the step that emitted the event, and every such event a
\* socket holds carries a stored row.
C1_BroadcastOnlyAfterPersist ==
    /\ [](\A s \in Sockets : \A i \in 1..Len(inbox[s]) :
            inbox[s][i].type = "receive_message" => inbox[s][i].payload \in StoredRows)
    /\ [][\A s \in Sockets : \A i \in (Len(inbox[s]) + 1)..Len(inbox'[s]) :
            inbox'[s][i].type = "receive_message" => inbox'[s][i].payload \in StoredRows]_vars

\* C1 witness: a socket has received a receive_message event.
C1_Witness ==
    \E s \in Sockets : \E i \in 1..Len(inbox[s]) : inbox[s][i].type = "receive_message"

\* C2: when the row of send A was stored before send B on the same channel
\* began, no socket receives the event of B before the event of A.
C2_OrderPreserved ==
    \A s \in Sockets : \A i, j \in 1..Len(inbox[s]) :
        LET b == inbox[s][i].send
            a == inbox[s][j].send
        IN  ( /\ i < j
              /\ inbox[s][i].type = "receive_message"
              /\ inbox[s][j].type = "receive_message"
              /\ sends[a].channelId = sends[b].channelId )
            => ~(sends[a].id <= sends[b].begunAt)

C4_FailedWriteStaysPrivate ==
    /\ \A h \in 1..Len(sends) : sends[h].pc = "createFailed" =>
          /\ sends[h].id = 0
          /\ \A s \in Sockets :
                /\ EventsOf(s, h, "receive_message") = {}
                /\ s # sends[h].socket => EventsOf(s, h, "error") = {}
                /\ Cardinality(EventsOf(s, h, "error")) <= 1
    /\ Len(messages) = Cardinality(Persisted)

\* C4 witness: a create failed while another socket was in the channel's
\* room, and the sender holds the error event.
C4_Witness ==
    \E h \in 1..Len(sends) :
        /\ sends[h].pc = "createFailed"
        /\ EventsOf(sends[h].socket, h, "error") # {}
        /\ rooms[sends[h].channelId] \ {sends[h].socket} # {}

\* the credentials that must not authenticate: missing, malformed, expired,
\* and well formed for a user id that has no row
BadTokens == {Undefined, "garbage", "expired:alice", "jwt:ghost"}

\* C5: a socket whose handshake carried a bad credential is never connected
\* (nor closed after having been connected), has no socket.user, is in no
\* room, and no send_message invocation or stored row is its own.
C5_RejectedHasNoState ==
    \A s \in Sockets : (conn[s] # "idle" /\ token[s] \in BadTokens) =>
        /\ conn[s] \in {"authenticating", "rejected"}
        /\ user[s] = Undefined
        /\ \A r \in DOMAIN rooms : s \notin rooms[r]
        /\ \A h \in 1..Len(sends) : sends[h].socket # s
        /\ inbox[s] = <<>>

\* C5 witness: a socket whose token names a user without a row has been
\* rejected after the lookup, while the other socket has stored a message.
C5_Witness ==
    \E s \in Sockets :
        /\ token[s] = "jwt:ghost"
        /\ conn[s] = "rejected"
        /\ messages # <<>>

\* C6: a closed socket is in no room, stays closed, and no later step
\* delivers an event to it.
C6_ClosedIsUnsubscribed ==
    /\ [](\A s \in Sockets : conn[s] = "closed" =>
                \A r \in DOMAIN rooms : s \notin rooms[r])
    /\ [][\A s \in Sockets : conn[s] = "closed" =>
                conn'[s] = "closed" /\ inbox'[s] = inbox[s]]_vars

\* C6 witness: a socket that had received a broadcast of the channel has
\* closed while a send of its own on that channel awaits the database, and
\* the other socket is in the room.
C6_Witness ==
    \E h \in 1..Len(sends) : \E g \in 1..Len(sends) :
        /\ sends[h].pc = "fetch"
        /\ conn[sends[h].socket] = "closed"
        /\ sends[g].channelId = sends[h].channelId
        /\ EventsOf(sends[h].socket, g, "receive_message") # {}
        /\ rooms[sends[h].channelId] = Sockets \ {sends[h].socket}

\* C7: a join_channel of a socket that is already in the room leaves every
\* room as it was, and no socket ever holds two receive_message events of
\* one message.
C7_JoinIdempotent ==
    /\ [][\A s \in Sockets : \A r \in RoomInputs :
            (JoinChannel(s, r) /\ s \in rooms[r]) => rooms' = rooms]_vars
    /\ [](\A s \in Sockets : \A h \in 1..Len(sends) :
            Cardinality(EventsOf(s, h, "receive_message")) <= 1)

\* C7 witness: a socket joined a room it was in already, is still in it, and
\* has received a broadcast.
C7_Witness ==
    /\ rejoined
    /\ \E s \in rooms["general"] : \E h \in 1..Len(sends) :
            EventsOf(s, h, "receive_message") # {}

\* C8: only channels of the Channel Directory have subscribers.
C8_OnlyExistingChannelsJoined ==
    \A r \in DOMAIN rooms : rooms[r] # {} => r \in Channels

\* empty or whitespace-only content
IsBlank(content) == content \in {"", " "}

\* C9: no stored row and no receive_message event has blank content.
C9_NoBlankContent ==
    /\ \A row \in StoredRows : ~IsBlank(row.content)
    /\ \A s \in Sockets : \A i \in 1..Len(inbox[s]) :
            inbox[s][i].type = "receive_message" => ~IsBlank(inbox[s][i].payload.content)

\* C10: every stored row names a channel of the Channels table and a user
\* of the Users table.
C10_RowsReferToChannelAndUser ==
    \A row \in StoredRows : row.channel_id \in Channels /\ row.user_id \in Users

\* C11: every stored row of a send_message has the user id attached to the
\* sending socket at authentication, and a send_message step (a step that
\* begins a handler invocation) is the same step whatever sender field its
\* payload carries.
C11_SenderFromConnection ==
    /\ [](\A h \in Persisted : messages[sends[h].id].user_id = user[sends[h].socket])
    /\ [][Len(sends') > Len(sends) =>
            \A s \in Sockets : \A c \in ChannelIdInputs : \A x \in ContentInputs :
                \A u1, u2 \in SenderInputs :
                    SendMessage(s, Data(c, x, u1)) => SendMessage(s, Data(c, x, u2))]_vars

\* C11 witness: a row is stored for a send of alice's socket; the step that
\* began it is a send_message step for every sender field of SenderInputs,
\* "bob" among them.
C11_Witness ==
    \E h \in Persisted :
        /\ user[sends[h].socket] = "alice"
        /\ messages[sends[h].id].user_id = "alice"
        /\ "bob" \in SenderInputs

\* C12: socket.user is a user exactly from the successful end of the
\* handshake on, no step changes it once set, and a connected socket's
\* send_message is accepted whether or not its token would still verify.
C12_IdentityBoundOnce ==
    /\ [](\A s \in Sockets :
            IF conn[s] \in {"connected", "closed"}
            THEN user[s] \in Users /\ user[s] = JwtVerify(token[s])
            ELSE user[s] = Undefined)
    /\ [][\A s \in Sockets : user[s] # Undefined => user'[s] = user[s]]_vars
    /\ [](\A s \in Sockets : (conn[s] = "connected" /\ Len(sends) < MaxSends) =>
            ENABLED SendMessage(s, Data("general", "hi", Undefined)))

\* C12 witness: the only send_message so far arrived after its socket's
\* token had expired, and its row is stored under the socket's user id.
C12_Witness ==
    /\ sentLate
    /\ Len(sends) = 1
    /\ 1 \in Persisted
    /\ JwtVerifyAt(token[sends[1].socket], lapsed) = "throws"
    /\ messages[sends[1].id].user_id = user[sends[1].socket]

\* C13: once a socket has closed, no step adds it to a room, stores a row
\* for one of its send_message invocations or broadcasts one of them.
C13_ClosedIsTerminal ==
    [][\A s \in Sockets : conn[s] = "closed" =>
          /\ \A r \in DOMAIN rooms : s \notin rooms'[r]
          /\ \A h \in 1..Len(sends) : sends[h].socket = s =>
                /\ sends'[h].id = sends[h].id
                /\ sends'[h].pc = "done" => sends[h].pc = "done"]_vars

\* the private channels for which the user of socket s has no membership row
ClosedTo(s) ==
    {c \in PrivateChannels : ~\E m \in InitialMembers : m[1] = c /\ m[2] = user[s]}

\* C14: a connected socket can join any channel, private ones its user is
\* no member of included; a join_channel step puts the socket in the room;
\* and a broadcast on a channel appends its event to the inbox of every
\* socket of the room.
C14_JoinIgnoresPrivacy ==
    /\ [](\A s \in Sockets : conn[s] = "connected" =>
            \A r \in RoomInputs : ENABLED JoinChannel(s, r))
    /\ [][\A s \in Sockets : \A r \in RoomInputs :
            JoinChannel(s, r) => s \in rooms'[r]]_vars
    /\ [][\A h \in 1..Len(sends) : (sends[h].pc = "fetch" /\ sends'[h].pc = "done") =>
            \A s \in rooms[sends[h].channelId] :
                /\ Len(inbox'[s]) = Len(inbox[s]) + 1
                /\ inbox'[s][Len(inbox'[s])].type = "receive_message"
                /\ inbox'[s][Len(inbox'[s])].payload = messages[sends[h].id]]_vars

\* C14 witness: a socket of alice is in the room of the private channel she
\* is no member of and holds a receive_message event of that channel.
C14_Witness ==
    \E s \in Sockets :
        /\ "secret" \in ClosedTo(s)
        /\ s \in rooms["secret"]
        /\ \E i \in 1..Len(inbox[s]) :
              /\ inbox[s][i].type = "receive_message"
              /\ inbox[s][i].payload.channel_id = "secret"

\* the Authorization headers that must be refused: every header of
\* AuthHeaders but the Bearer header with alice's unexpired token
BadHeaders == AuthHeaders \ {<<"Bearer", "jwt:alice">>}

\* C15: a request to the protected route whose header must be refused never
\* reaches the route handler, is answered 401 and nothing else, and neither
\* a step of it nor its arrival changes a table; no row is its own.
C15_ProtectRefuses ==
    /\ [](\A q \in 1..Len(reqs) : reqs[q].auth \in BadHeaders =>
            /\ reqs[q].pc \in {"protect", "done"}
            /\ reqs[q].code = (IF reqs[q].pc = "done" THEN 401 ELSE 0)
            /\ reqs[q].row = 0
            /\ \A i \in 1..Len(channelRows) : channelRows[i].req # q)
    /\ [][\A q \in 1..Len(reqs') :
            (reqs'[q].auth \in BadHeaders /\ (q > Len(reqs) \/ reqs'[q] # reqs[q]))
                => UNCHANGED <<channelRows, memberRows, status, messages>>]_vars

\* C15 witness: a request with an expired token and a request whose token
\* names a user without a row have been answered 401, the second one after
\* the lookup.
C15_Witness ==
    \E q, p \in 1..Len(reqs) :
        /\ reqs[q].auth = <<"Bearer", "expired:alice">>
        /\ reqs[q].code = 401
        /\ reqs[p].auth = <<"Bearer", "jwt:ghost">>
        /\ reqs[p].code = 401

\* C16: no two Channels rows have the same name; a request answered 400
\* has no Channels row and no ChannelMembers row of its own; and a request
\* whose Channels.create finds its name taken ends with 400 (or 500 when the
\* database fails) and leaves both tables as they were.
C16_ChannelNamesUnique ==
    /\ [](\A i \in 1..Len(channelRows) :
            /\ channelRows[i].name \notin Channels
            /\ \A j \in 1..Len(channelRows) :
                  channelRows[i].name = channelRows[j].name => i = j)
    /\ [](\A q \in 1..Len(reqs) : reqs[q].code = 400 =>
            /\ reqs[q].row = 0
            /\ \A i \in 1..Len(channelRows) : channelRows[i].req # q
            /\ reqs[q].name \in ChannelNames)
    /\ [][\A q \in 1..Len(reqs) :
            (reqs[q].pc = "create" /\ reqs'[q].pc # "create"
                /\ reqs[q].name \in ChannelNames)
            => /\ reqs'[q].code \in {400, 500}
               /\ UNCHANGED <<channelRows, memberRows>>]_vars

\* C16 witness: of two requests posting the name "dev", one was answered
\* 201 and the other 400, and one request posting the existing name
\* "general" would be answered 400 as well.
C16_Witness ==
    /\ Len(reqs) = 2
    /\ reqs[1].name = "dev" /\ reqs[2].name = "dev"
    /\ {reqs[1].code, reqs[2].code} = {201, 400}
    /\ Len(channelRows) = 1

\* a login answered 200 leaves its user online
LoginLeavesOnline ==
    \A q \in 1..Len(reqs) : reqs[q].code = 200 => status[reqs[q].user] = "online"

\* no step takes a status from online to offline
OnlineIsKept ==
    \A u \in Users : status[u] = "online" => status'[u] = "online"

\* C17 as stated: a user with an authenticated connection is online, a user
\* whose login succeeded is online, and no step takes a status from online
\* to offline.
C17_PresenceOnLoginOrConnect ==
    /\ [](\A s \in Sockets : conn[s] = "connected" => status[user[s]] = "online")
    /\ []LoginLeavesOnline
    /\ [][OnlineIsKept]_vars

\* C17 amended: a user whose login succeeded is online, no step takes a
\* status from online to offline, and a status changes only in the step of
\* a login that answers 200: authenticating a connection, joining and
\* disconnecting leave every status as it was.
C17_PresenceOnLogin ==
    /\ []LoginLeavesOnline
    /\ [][OnlineIsKept]_vars
    /\ [][status' # status =>
            \E q \in 1..Len(reqs) : reqs[q].pc = "update" /\ reqs'[q].code = 200]_vars

\* C17 witness: alice, offline at first, is online after her login, and a
\* connection of hers was authenticated and has been closed since.
C17_Witness ==
    /\ \E q \in 1..Len(reqs) : reqs[q].code = 200 /\ reqs[q].user = "alice"
    /\ status["alice"] = "online"
    /\ \E s \in Sockets : conn[s] = "closed" /\ user[s] = "alice"

\* C18: a send for which its sender holds an error event has left no row
\* in the Messages table.
C18_ErrorMeansNotStored ==
    \A h \in 1..Len(sends) :
        EventsOf(sends[h].socket, h, "error") # {} =>
            /\ sends[h].id = 0
            /\ h \notin Persisted

\* C19: two sockets that both hold the receive_message events of two sends
\* on the same channel hold them in the same relative order.
C19_SubscribersAgreeOnOrder ==
    \A s, t \in Sockets :
        \A i, j \in 1..Len(inbox[s]) : \A k, l \in 1..Len(inbox[t]) :
            ( /\ inbox[s][i].type = "receive_message"
              /\ inbox[s][j].type = "receive_message"
              /\ inbox[t][k].type = "receive_message"
              /\ inbox[t][l].type = "receive_message"
              /\ inbox[s][i].send = inbox[t][k].send
              /\ inbox[s][j].send = inbox[t][l].send
              /\ sends[inbox[s][i].send].channelId = sends[inbox[s][j].send].channelId
              /\ i < j )
            => k < l

\* C19 witness: both sockets hold the events of two sends whose handlers
\* ran concurrently, the row of the later-begun one stored first.
C19_Witness ==
    /\ Len(sends) = 2
    /\ sends[1].pc = "done" /\ sends[2].pc = "done"
    /\ sends[1].socket # sends[2].socket
    /\ sends[2].id < sends[1].id
    /\ \A s \in Sockets : \A h \in 1..2 : EventsOf(s, h, "receive_message") # {}

\* C20: a connected socket may send to a channel whether or not it is in
\* the channel's room, and the row of such a send can be stored; a finished
\* send has its row stored and was broadcast to the room as it was at that
\* step; and its sender holds the event exactly when it was in that room.
C20_SendNeedsNoSubscription ==
    /\ [](\A s \in Sockets : (conn[s] = "connected" /\ Len(sends) < MaxSends) =>
            ENABLED SendMessage(s, Data("general", "hi", Undefined)))
    /\ [](\A h \in 1..Len(sends) : sends[h].pc = "create" => ENABLED CreateOk(h))
    /\ [](\A h \in 1..Len(sends) : sends[h].pc = "done" =>
            /\ sends[h].id \in 1..Len(messages)
            /\ (EventsOf(sends[h].socket, h, "receive_message") # {})
                    <=> (sends[h].socket \in sends[h].fanout))
    /\ [][\A h \in 1..Len(sends) :
            (sends[h].pc = "fetch" /\ sends'[h].pc = "done") =>
                /\ sends'[h].fanout = rooms[sends[h].channelId]
                /\ \A s \in rooms[sends[h].channelId] :
                      Len(inbox'[s]) = Len(inbox[s]) + 1]_vars

\* C20 witness: a send of a connected socket that is in no room has been
\* stored and broadcast to the other socket, and its sender holds no event
\* for it.
C20_Witness ==
    \E h \in 1..Len(sends) :
        /\ sends[h].pc = "done"
        /\ conn[sends[h].socket] = "connected"
        /\ \A r \in RoomInputs : sends[h].socket \notin rooms[r]
        /\ sends[h].fanout = Sockets \ {sends[h].socket}
        /\ sends[h].id \in 1..Len(messages)
        /\ EventsOf(sends[h].socket, h, "receive_message") = {}
        /\ \A s \in sends[h].fanout : EventsOf(s, h, "receive_message") # {}

\* the row a request has stored: in the table 'messages' for the route of
\* api/index.js, in Messages for the route of server.js
RowOf(q) ==
    IF reqs[q].route = "api/index.js POST /api/messages/:channelId"
    THEN apiMessages[reqs[q].row]
    ELSE messages[reqs[q].row]

MessagePosts ==
    {q \in 1..Len(reqs) : reqs[q].route = "POST /api/messages/:channelId"}

\* C22: a step of a request to POST /api/messages/:channelId (its arrival
\* included) leaves the events of every socket as they were; a request
\* answered 201 has stored its row, with its channel and content, and the
\* response goes to the request alone; with no send_message, no socket
\* holds an event however many rows the requests stored.
C22_HttpPostEmitsNothing ==
    /\ [][reqs' # reqs => inbox' = inbox]_vars
    /\ [](\A q \in MessagePosts : reqs[q].code = 201 =>
            /\ reqs[q].row \in 1..Len(messages)
            /\ messages[reqs[q].row].channel_id = reqs[q].channelId
            /\ messages[reqs[q].row].content = reqs[q].content
            /\ \A p \in MessagePosts : p # q => reqs[p].row # reqs[q].row)
    /\ [](sends = <<>> => \A s \in Sockets : inbox[s] = <<>>)

\* C22 witness: both connections are in the room of the channel, and stayed
\* there while a request stored a message for the channel and was answered
\* 201; neither holds an event.
C22_Witness ==
    /\ rooms["general"] = Sockets
    /\ \E q \in MessagePosts :
          /\ reqs[q].code = 201
          /\ messages[reqs[q].row].channel_id = "general"
    /\ \A s \in Sockets : inbox[s] = <<>>

\* C23: every Channels row whose creating request has been answered has
\* the ChannelMembers row of its creator, with the role admin.
C23_CreatorIsAdmin ==
    \A i \in 1..Len(channelRows) :
        reqs[channelRows[i].req].pc = "done" =>
            <<channelRows[i].id, channelRows[i].created_by, "admin">> \in memberRows

\* C24: no two Users rows share a username or an email; a signup that
\* finds its username or email taken, at the findOne or at the create, is
\* answered 409; and a signup answered 409 created no row and got no token.
C24_SignupConflictIs409 ==
    /\ \A i \in 1..Len(userRows) :
          /\ userRows[i].username \notin Users
          /\ userRows[i].email \notin Users
          /\ \A j \in 1..Len(userRows) :
                (userRows[i].username = userRows[j].username
                    \/ userRows[i].email = userRows[j].email) => i = j
    /\ \A q \in 1..Len(reqs) :
          /\ reqs[q].error = "SequelizeUniqueConstraintError" => reqs[q].code = 409
          /\ reqs[q].code = 409 => reqs[q].row = 0 /\ reqs[q].token = Undefined
          /\ reqs[q].row = 0 => reqs[q].token = Undefined

====
